---- MODULE Spec2Model ----
(***************************************************************************)
(* Edit-distance core of abydos: Levenshtein (modes lev / osa),            *)
(* DamerauLevenshtein (Lowrance-Wagner after K. Stern) and                 *)
(* PhoneticEditDistance, modelled from abydos/distance/_levenshtein.py and *)
(* abydos/distance/_phonetic_edit_distance.py.                             *)
(*                                                                         *)
(* Numbers: a cost is a multiple of 1/Scale, held as the integer           *)
(* Scale * cost; a distance is held in the same unit.  Unit cost is Scale. *)
(* Python sequences are indexed from 0: At(s, i) is s[i].                  *)
(***************************************************************************)
EXTENDS Integers, Sequences, FiniteSets, TLC

VARIABLES
    op,      \* the method called: "Levenshtein", "DamerauLevenshtein", "PhoneticEditDistance"
    mode,    \* the mode argument (Levenshtein) or self._mode (PhoneticEditDistance)
    cost,    \* the 4-tuple <<ins_cost, del_cost, sub_cost, trans_cost>>
    src,     \* source sequence
    tar,     \* target sequence
    pc,      \* position in the call: "call", "matrix", "filled", "done", "raised"
    d_mat,   \* the matrix d_mat, or NoMatrix before np_zeros is called
    ret,     \* the value returned (meaningful when pc = "done")
    exc,     \* the exception raised (meaningful when pc = "raised")
    ref,     \* reference table of cheapest edit sequences (NoRef when not kept)
    stack,   \* the methods waiting for the call they made to return, innermost first
    calls,   \* the methods called by other methods so far, in order
    normalize_term,  \* the divisor computed by a dist method (NotComputed before)
    distance,     \* alignment: the local distance
    src_pos,      \* alignment: the local src_pos
    tar_pos,      \* alignment: the local tar_pos
    src_aligned,  \* alignment: the list src_aligned
    tar_aligned,  \* alignment: the list tar_aligned
    normalizer,   \* PhoneticEditDistance: self._normalizer, "max" or "sum"
    weights,      \* PhoneticEditDistance.__init__: the argument weights
    self_weights, \* PhoneticEditDistance: self._weights
    stdout        \* what has been printed, one entry per print call

\* The state of the methods built on top of dist_abs and _alignment_matrix.
outer == <<stack, calls, normalize_term, distance, src_pos, tar_pos,
           src_aligned, tar_aligned, normalizer, weights, self_weights, stdout>>

vars == <<op, mode, cost, src, tar, pc, d_mat, ret, exc, ref, outer>>

----------------------------------------------------------------------------
\* Bounds of the model.

NumSym == 2
MaxLen == 2
NumSymI == 2
MaxLenI == 3
MaxIntCost == 2
NumSymR == 2
MaxLenR == 2
NumSymD == 3
MaxLenD == 3
NumSymU == 3
MaxLenU == 3
NumSymT == 3
MaxLenT == 2
NumSymN == 2
MaxLenN == 2
NumSymA == 2
MaxLenA == 2
MaxLenO == 3
MaxLenB == 2

\* Resolution of the costs: a cost is k / Scale.  A cell of an np_int matrix
\* holds a whole number, that is a multiple of Scale.
Scale == 2
NumFeatures == 2
MaxWeight == 2

\* sys.maxsize, the "no swap candidate" value (the largest integer of the checker).
maxsize == 2147483647

Syms(k) == 1..k
Strs(k, n) == UNION {[1..l -> Syms(k)] : l \in 0..n}

\* The sequences that spell the examples of the documentation (one number per
\* letter, the same letter the same number within one example).
cat == <<1, 2, 3>>
hat == <<4, 2, 3>>
Niall == <<1, 2, 3, 4, 4>>
Neil == <<1, 5, 2, 4>>
ATCG == <<1, 2, 3, 4>>
TAGC == <<2, 1, 4, 3>>
ACTG == <<1, 3, 2, 4>>
CA == <<3, 1>>
AC == <<1, 3>>
ABC == <<1, 2, 3>>
Colin == <<1, 2, 3, 4, 5>>
Cuilen == <<1, 6, 4, 3, 7, 5>>
Examples == {cat, hat, Niall, Neil, ATCG, TAGC, ACTG, CA, AC, ABC, Colin, Cuilen}

Tuples4(S) == S \X S \X S \X S
FracCosts == Tuples4({0, 1, Scale})
IntCosts == Tuples4({k * Scale : k \in 0..MaxIntCost})
UnitCost == <<Scale, Scale, Scale, Scale>>

Modes == {"lev", "osa", "dam"}

----------------------------------------------------------------------------
\* Helpers for the Python primitives the code uses.

At(s, i) == s[i + 1]

Min2(a, b) == IF a <= b THEN a ELSE b
Min3(a, b, c) == Min2(a, Min2(b, c))
Min4(a, b, c, d) == Min2(Min2(a, b), Min2(c, d))
Max2(a, b) == IF a >= b THEN a ELSE b

ins_cost(c) == c[1]
del_cost(c) == c[2]
sub_cost(c) == c[3]
trans_cost(c) == c[4]

\* Storing into a dtype=np_int array truncates toward zero.
NpInt(x) == IF x >= 0 THEN (x \div Scale) * Scale ELSE 0 - (((0 - x) \div Scale) * Scale)

\* Storing into a dtype=np_float array keeps the value.
NpFloat(x) == x

\* Python values of the argument weights: None, a list, a tuple or a dict.
None == [kind |-> "None", val |-> <<>>]

NoMatrix == <<>>
NoRef == <<>>

\* np_zeros((rows, cols)): indices 0..rows-1, 0..cols-1.
np_zeros(rows, cols) == [p \in (0..(rows - 1)) \X (0..(cols - 1)) |-> 0]

----------------------------------------------------------------------------
\* Levenshtein.dist_abs (_levenshtein.py 118-155).

\* Mutant of LevSeed: row 0 is left at zero.
LevSeedNoRow(s, t, c) ==
    [p \in (0..Len(s)) \X (0..Len(t)) |->
        IF p[2] = 0 THEN NpInt(p[1] * del_cost(c)) ELSE 0]

\* d_mat after np_zeros and the two seeding loops (lines 127-131).
LevSeed(s, t, c) ==
    [p \in (0..Len(s)) \X (0..Len(t)) |->
        IF p[1] = 0 THEN NpInt(p[2] * ins_cost(c))
        ELSE IF p[2] = 0 THEN NpInt(p[1] * del_cost(c))
        ELSE 0]

\* Mutant of LevCell: the transposition is taken whenever src[i] = tar[j - 1].
LevCellLooseSwap(d, s, t, m, c, i, j) ==
    LET d1 == [d EXCEPT ![<<i + 1, j + 1>>] =
                  NpInt(Min3(d[<<i + 1, j>>] + ins_cost(c),
                             d[<<i, j + 1>>] + del_cost(c),
                             d[<<i, j>>] + (IF At(s, i) # At(t, j) THEN sub_cost(c) ELSE 0)))]
    IN  IF m = "osa" /\ i + 1 > 1 /\ j + 1 > 1 /\ At(s, i) = At(t, j - 1)
        THEN [d1 EXCEPT ![<<i + 1, j + 1>>] =
                 NpInt(Min2(d1[<<i + 1, j + 1>>], d1[<<i - 1, j - 1>>] + trans_cost(c)))]
        ELSE d1

\* Mutant of LevCell: a deletion is charged the insert cost.
LevCellInsForDel(d, s, t, m, c, i, j) ==
    [d EXCEPT ![<<i + 1, j + 1>>] =
        NpInt(Min3(d[<<i + 1, j>>] + ins_cost(c),
                   d[<<i, j + 1>>] + ins_cost(c),
                   d[<<i, j>>] + (IF At(s, i) # At(t, j) THEN sub_cost(c) ELSE 0)))]

\* One pass of the inner loop body for (i, j) (lines 135-153).
LevCell(d, s, t, m, c, i, j) ==
    LET d1 == [d EXCEPT ![<<i + 1, j + 1>>] =
                  NpInt(Min3(d[<<i + 1, j>>] + ins_cost(c),
                             d[<<i, j + 1>>] + del_cost(c),
                             d[<<i, j>>] + (IF At(s, i) # At(t, j) THEN sub_cost(c) ELSE 0)))]
    IN  IF m = "osa"
        THEN IF /\ i + 1 > 1
                /\ j + 1 > 1
                /\ At(s, i) = At(t, j - 1)
                /\ At(s, i - 1) = At(t, j)
             THEN [d1 EXCEPT ![<<i + 1, j + 1>>] =
                      NpInt(Min2(d1[<<i + 1, j + 1>>], d1[<<i - 1, j - 1>>] + trans_cost(c)))]
             ELSE d1
        ELSE d1

\* The nested loops of lines 133-153, from cell number k on (row-major order).
\* The test on DOMAIN d1 has the matrix of each pass evaluated before the next
\* pass starts; a matrix has no empty domain.
RECURSIVE LevLoop(_, _, _, _, _, _)
LevLoop(d, s, t, m, c, k) ==
    IF Len(t) = 0 \/ k >= Len(s) * Len(t) THEN d
    ELSE LET d1 == LevCell(d, s, t, m, c, k \div Len(t), k % Len(t))
         IN  IF DOMAIN d1 = {} THEN d1 ELSE LevLoop(d1, s, t, m, c, k + 1)

\* The whole of dist_abs as a function of its arguments.
LevDistAbs(s, t, m, c) ==
    IF s = t THEN 0
    ELSE IF Len(s) = 0 THEN Len(t) * ins_cost(c)
    ELSE IF Len(t) = 0 THEN Len(s) * del_cost(c)
    ELSE LevLoop(LevSeed(s, t, c), s, t, m, c, 0)[<<Len(s), Len(t)>>]

\* Mutant of LevEnter: the two empty-input returns use each other's cost.
LevEnterSwapped ==
    /\ pc = "call" /\ op = "Levenshtein"
    /\ IF src = tar
       THEN /\ ret' = 0 /\ pc' = "done" /\ UNCHANGED d_mat
       ELSE IF Len(src) = 0
       THEN /\ ret' = Len(tar) * del_cost(cost) /\ pc' = "done" /\ UNCHANGED d_mat
       ELSE IF Len(tar) = 0
       THEN /\ ret' = Len(src) * ins_cost(cost) /\ pc' = "done" /\ UNCHANGED d_mat
       ELSE /\ d_mat' = LevSeed(src, tar, cost) /\ pc' = "matrix" /\ UNCHANGED ret
    /\ UNCHANGED <<op, mode, cost, src, tar, exc, ref, outer>>

\* Lines 118-131: unpack the cost, take a fast path or allocate and seed d_mat.
LevEnter ==
    /\ pc = "call" /\ op = "Levenshtein"
    /\ IF src = tar
       THEN /\ ret' = 0 /\ pc' = "done" /\ UNCHANGED d_mat
       ELSE IF Len(src) = 0
       THEN /\ ret' = Len(tar) * ins_cost(cost) /\ pc' = "done" /\ UNCHANGED d_mat
       ELSE IF Len(tar) = 0
       THEN /\ ret' = Len(src) * del_cost(cost) /\ pc' = "done" /\ UNCHANGED d_mat
       ELSE /\ d_mat' = LevSeed(src, tar, cost) /\ pc' = "matrix" /\ UNCHANGED ret
    /\ UNCHANGED <<op, mode, cost, src, tar, exc, ref, outer>>

\* Lines 133-153: fill the matrix.
LevFill ==
    /\ pc = "matrix" /\ op = "Levenshtein"
    /\ d_mat' = LevLoop(d_mat, src, tar, mode, cost, 0)
    /\ pc' = "filled"
    /\ UNCHANGED <<op, mode, cost, src, tar, ret, exc, ref, outer>>

\* Line 155: return the terminal cell.
LevReturn ==
    /\ pc = "filled" /\ op = "Levenshtein"
    /\ ret' = d_mat[<<Len(src), Len(tar)>>]
    /\ pc' = "done"
    /\ UNCHANGED <<op, mode, cost, src, tar, d_mat, exc, ref, outer>>

----------------------------------------------------------------------------
\* DamerauLevenshtein.dist_abs (_levenshtein.py 368-447).
\* d_mat has shape (len(src), len(tar)): cell (i, j) is for src[0..i], tar[0..j].

\* Line 377: the cost assignment the algorithm does not support.
DLUnsupported(c) == 2 * trans_cost(c) < ins_cost(c) + del_cost(c)

\* Lines 383-388: np_zeros and the first cell.
DLFirst(s, t, c) ==
    [np_zeros(Len(s), Len(t)) EXCEPT ![<<0, 0>>] =
        IF At(s, 0) # At(t, 0)
        THEN NpInt(Min2(sub_cost(c), ins_cost(c) + del_cost(c)))
        ELSE 0]

\* Lines 391-397: column 0, rows i..len(src)-1.
RECURSIVE DLCol0(_, _, _, _, _)
DLCol0(d, s, t, c, i) ==
    IF i >= Len(s) THEN d
    ELSE LET del_distance == d[<<i - 1, 0>>] + del_cost(c)
             ins_distance == (i + 1) * del_cost(c) + ins_cost(c)
             match_distance == i * del_cost(c)
                                 + (IF At(s, i) = At(t, 0) THEN 0 ELSE sub_cost(c))
         IN  DLCol0([d EXCEPT ![<<i, 0>>] =
                        NpInt(Min3(del_distance, ins_distance, match_distance))],
                    s, t, c, i + 1)

\* Lines 399-405: row 0, columns j..len(tar)-1.
RECURSIVE DLRow0(_, _, _, _, _)
DLRow0(d, s, t, c, j) ==
    IF j >= Len(t) THEN d
    ELSE LET del_distance == (j + 1) * ins_cost(c) + del_cost(c)
             ins_distance == d[<<0, j - 1>>] + ins_cost(c)
             match_distance == j * ins_cost(c)
                                 + (IF At(s, 0) = At(t, j) THEN 0 ELSE sub_cost(c))
         IN  DLRow0([d EXCEPT ![<<0, j>>] =
                        NpInt(Min3(del_distance, ins_distance, match_distance))],
                    s, t, c, j + 1)

\* Lines 428-432: the cost before the swapped pair.
DLPreSwapCost(d, i_swap, j_swap) ==
    IF i_swap = 0 /\ j_swap = 0 THEN 0
    ELSE d[<<Max2(0, i_swap - 1), Max2(0, j_swap - 1)>>]

\* Mutant of DLSwapDistance: the symbols between the swapped pair are not charged.
DLSwapDistanceNoGap(d, c, i, j, candidate_swap_index, j_swap) ==
    IF candidate_swap_index # -1 /\ j_swap # -1
    THEN DLPreSwapCost(d, candidate_swap_index, j_swap) + trans_cost(c)
    ELSE maxsize

\* Lines 424-440: the swap candidate of cell (i, j).
DLSwapDistance(d, c, i, j, candidate_swap_index, j_swap) ==
    IF candidate_swap_index # -1 /\ j_swap # -1
    THEN DLPreSwapCost(d, candidate_swap_index, j_swap)
           + (i - candidate_swap_index - 1) * del_cost(c)
           + (j - j_swap - 1) * ins_cost(c)
           + trans_cost(c)
    ELSE maxsize

\* Lines 409-444: the inner loop of row i from column j on.  sibc is
\* src_index_by_character (-1: the character is no key), msl is
\* max_src_letter_match_index.
RECURSIVE DLInner(_, _, _, _, _, _, _, _)
DLInner(d, s, t, c, sibc, msl, i, j) ==
    IF j >= Len(t) THEN d
    ELSE LET candidate_swap_index == sibc[At(t, j)]
             j_swap == msl
             del_distance == d[<<i - 1, j>>] + del_cost(c)
             ins_distance == d[<<i, j - 1>>] + ins_cost(c)
             match_distance == d[<<i - 1, j - 1>>]
                                 + (IF At(s, i) # At(t, j) THEN sub_cost(c) ELSE 0)
             msl2 == IF At(s, i) # At(t, j) THEN msl ELSE j
             swap_distance == DLSwapDistance(d, c, i, j, candidate_swap_index, j_swap)
         IN  DLInner([d EXCEPT ![<<i, j>>] =
                         NpInt(Min4(del_distance, ins_distance, match_distance, swap_distance))],
                     s, t, c, sibc, msl2, i, j + 1)

\* Lines 407-445: the outer loop from row i on.
RECURSIVE DLOuter(_, _, _, _, _, _)
DLOuter(d, s, t, c, sibc, i) ==
    IF i >= Len(s) THEN d
    ELSE LET d1 == DLInner(d, s, t, c, sibc, IF At(s, i) = At(t, 0) THEN 0 ELSE -1, i, 1)
         IN  IF DOMAIN d1 = {} THEN d1
             ELSE DLOuter(d1, s, t, c, [sibc EXCEPT ![At(s, i)] = i], i + 1)

\* Line 390: src_index_by_character = {src[0]: 0}.
DLIndexInit(s, t) ==
    [a \in {s[p] : p \in DOMAIN s} \cup {t[p] : p \in DOMAIN t} |-> IF a = At(s, 0) THEN 0 ELSE -1]

\* Lines 390-445: everything after the first cell.
DLMatrix(d, s, t, c) ==
    DLOuter(DLRow0(DLCol0(d, s, t, c, 1), s, t, c, 1), s, t, c, DLIndexInit(s, t), 1)

\* The whole of dist_abs: "value" with the distance or "raise" (ValueError).
DLDistAbs(s, t, c) ==
    IF s = t THEN [kind |-> "value", val |-> 0]
    ELSE IF Len(s) = 0 THEN [kind |-> "value", val |-> Len(t) * ins_cost(c)]
    ELSE IF Len(t) = 0 THEN [kind |-> "value", val |-> Len(s) * del_cost(c)]
    ELSE IF DLUnsupported(c) THEN [kind |-> "raise", val |-> 0]
    ELSE [kind |-> "value",
          val |-> DLMatrix(DLFirst(s, t, c), s, t, c)[<<Len(s) - 1, Len(t) - 1>>]]

\* Mutant of DLEnter: no fast path for identical sequences.
DLEnterNoIdentity ==
    /\ pc = "call" /\ op = "DamerauLevenshtein"
    /\ IF Len(src) = 0
       THEN /\ ret' = Len(tar) * ins_cost(cost) /\ pc' = "done" /\ UNCHANGED <<d_mat, exc>>
       ELSE IF Len(tar) = 0
       THEN /\ ret' = Len(src) * del_cost(cost) /\ pc' = "done" /\ UNCHANGED <<d_mat, exc>>
       ELSE IF DLUnsupported(cost)
       THEN /\ exc' = "ValueError" /\ pc' = "raised" /\ UNCHANGED <<d_mat, ret>>
       ELSE /\ d_mat' = DLFirst(src, tar, cost) /\ pc' = "matrix" /\ UNCHANGED <<ret, exc>>
    /\ UNCHANGED <<op, mode, cost, src, tar, ref, outer>>

\* Mutant of DLEnter: np_zeros and the first cell come before the cost check.
DLEnterLateCheck ==
    /\ pc = "call" /\ op = "DamerauLevenshtein"
    /\ IF src = tar
       THEN /\ ret' = 0 /\ pc' = "done" /\ UNCHANGED <<d_mat, exc>>
       ELSE IF Len(src) = 0
       THEN /\ ret' = Len(tar) * ins_cost(cost) /\ pc' = "done" /\ UNCHANGED <<d_mat, exc>>
       ELSE IF Len(tar) = 0
       THEN /\ ret' = Len(src) * del_cost(cost) /\ pc' = "done" /\ UNCHANGED <<d_mat, exc>>
       ELSE IF DLUnsupported(cost)
       THEN /\ d_mat' = DLFirst(src, tar, cost)
            /\ exc' = "ValueError" /\ pc' = "raised" /\ UNCHANGED ret
       ELSE /\ d_mat' = DLFirst(src, tar, cost) /\ pc' = "matrix" /\ UNCHANGED <<ret, exc>>
    /\ UNCHANGED <<op, mode, cost, src, tar, ref, outer>>

\* Lines 368-388: fast paths, the cost check, then np_zeros and the first cell.
DLEnter ==
    /\ pc = "call" /\ op = "DamerauLevenshtein"
    /\ IF src = tar
       THEN /\ ret' = 0 /\ pc' = "done" /\ UNCHANGED <<d_mat, exc>>
       ELSE IF Len(src) = 0
       THEN /\ ret' = Len(tar) * ins_cost(cost) /\ pc' = "done" /\ UNCHANGED <<d_mat, exc>>
       ELSE IF Len(tar) = 0
       THEN /\ ret' = Len(src) * del_cost(cost) /\ pc' = "done" /\ UNCHANGED <<d_mat, exc>>
       ELSE IF DLUnsupported(cost)
       THEN /\ exc' = "ValueError" /\ pc' = "raised" /\ UNCHANGED <<d_mat, ret>>
       ELSE /\ d_mat' = DLFirst(src, tar, cost) /\ pc' = "matrix" /\ UNCHANGED <<ret, exc>>
    /\ UNCHANGED <<op, mode, cost, src, tar, ref, outer>>

\* Lines 390-445: fill the matrix.
DLFill ==
    /\ pc = "matrix" /\ op = "DamerauLevenshtein"
    /\ d_mat' = DLMatrix(d_mat, src, tar, cost)
    /\ pc' = "filled"
    /\ UNCHANGED <<op, mode, cost, src, tar, ret, exc, ref, outer>>

\* Line 447: return the terminal cell.
DLReturn ==
    /\ pc = "filled" /\ op = "DamerauLevenshtein"
    /\ ret' = d_mat[<<Len(src) - 1, Len(tar) - 1>>]
    /\ pc' = "done"
    /\ UNCHANGED <<op, mode, cost, src, tar, d_mat, exc, ref, outer>>

----------------------------------------------------------------------------
\* PhoneticEditDistance (_phonetic_edit_distance.py).

\* abydos.phones.ipa_to_features: one feature value per symbol.
ipa_to_features(s) == s

\* abydos.phones.cmp_features: the agreement of two feature values, 1 for
\* identical values and 0 for complete disagreement.
cmp_features(a, b) == IF a = b THEN 1 ELSE 0

\* Lines 148-152: np_zeros (dtype np_float) and the two seeding loops.
PedSeed(s, t, c) ==
    [p \in (0..Len(s)) \X (0..Len(t)) |->
        IF p[1] = 0 THEN NpFloat(p[2] * ins_cost(c))
        ELSE IF p[2] = 0 THEN NpFloat(p[1] * del_cost(c))
        ELSE 0]

\* Line 162: tar[i] is read when src[i] != tar[j]; it does not exist when
\* i >= len(tar).
PedIndexError(s, t, i, j) == At(s, i) # At(t, j) /\ i >= Len(t)

\* Lines 159-165: the substitution candidate of cell (i + 1, j + 1).
PedSubCandidate(d, s, t, c, i, j) ==
    d[<<i, j>>]
      + (IF At(s, i) # At(t, j)
         THEN sub_cost(c) * (1 - cmp_features(At(s, i), At(t, i)))
         ELSE 0)

\* One pass of the inner loop body for (i, j) (lines 156-179).
PedCell(d, s, t, m, c, i, j) ==
    LET d1 == [d EXCEPT ![<<i + 1, j + 1>>] =
                  NpFloat(Min3(d[<<i + 1, j>>] + ins_cost(c),
                               d[<<i, j + 1>>] + del_cost(c),
                               PedSubCandidate(d, s, t, c, i, j)))]
    IN  IF m = "osa"
        THEN IF /\ i + 1 > 1
                /\ j + 1 > 1
                /\ At(s, i) = At(t, j - 1)
                /\ At(s, i - 1) = At(t, j)
             THEN [d1 EXCEPT ![<<i + 1, j + 1>>] =
                      NpFloat(Min2(d1[<<i + 1, j + 1>>], d1[<<i - 1, j - 1>>] + trans_cost(c)))]
             ELSE d1
        ELSE d1

\* The nested loops of lines 154-179 from cell number k on: the matrix, and
\* whether the loop ended in an IndexError.
RECURSIVE PedLoop(_, _, _, _, _, _)
PedLoop(d, s, t, m, c, k) ==
    IF Len(t) = 0 \/ k >= Len(s) * Len(t) THEN [d |-> d, err |-> FALSE]
    ELSE IF PedIndexError(s, t, k \div Len(t), k % Len(t)) THEN [d |-> d, err |-> TRUE]
    ELSE LET d1 == PedCell(d, s, t, m, c, k \div Len(t), k % Len(t))
         IN  IF DOMAIN d1 = {} THEN [d |-> d1, err |-> FALSE]
             ELSE PedLoop(d1, s, t, m, c, k + 1)

\* _alignment_matrix as a function of its arguments.
PedAlignmentMatrix(s, t, m, c) ==
    PedLoop(PedSeed(ipa_to_features(s), ipa_to_features(t), c),
            ipa_to_features(s), ipa_to_features(t), m, c, 0)

\* dist_abs lines 297-309: fast paths, else enter _alignment_matrix (lines 140-152).
PedEnter ==
    /\ pc = "call" /\ op = "PhoneticEditDistance"
    /\ IF src = tar
       THEN /\ ret' = 0 /\ pc' = "done" /\ UNCHANGED d_mat
       ELSE IF Len(src) = 0
       THEN /\ ret' = ins_cost(cost) * Len(tar) /\ pc' = "done" /\ UNCHANGED d_mat
       ELSE IF Len(tar) = 0
       THEN /\ ret' = del_cost(cost) * Len(src) /\ pc' = "done" /\ UNCHANGED d_mat
       ELSE /\ d_mat' = PedSeed(ipa_to_features(src), ipa_to_features(tar), cost)
            /\ pc' = "matrix" /\ UNCHANGED ret
    /\ UNCHANGED <<op, mode, cost, src, tar, exc, ref, outer>>

\* _alignment_matrix lines 154-181: fill the matrix; reading tar[i] may raise.
PedFill ==
    /\ pc = "matrix" /\ op = "PhoneticEditDistance"
    /\ LET r == PedLoop(d_mat, ipa_to_features(src), ipa_to_features(tar), mode, cost, 0)
       IN  /\ d_mat' = r.d
           /\ IF r.err
              THEN /\ exc' = "IndexError" /\ pc' = "raised"
              ELSE /\ pc' = "filled" /\ UNCHANGED exc
    /\ UNCHANGED <<op, mode, cost, src, tar, ret, ref, outer>>

\* dist_abs lines 311-314: return the terminal cell (as int when it is whole).
PedReturn ==
    /\ pc = "filled" /\ op = "PhoneticEditDistance"
    /\ ret' = d_mat[<<Len(src), Len(tar)>>]
    /\ pc' = "done"
    /\ UNCHANGED <<op, mode, cost, src, tar, d_mat, exc, ref, outer>>

----------------------------------------------------------------------------
\* The normalized distances: Levenshtein.dist, DamerauLevenshtein.dist,
\* Indel.dist_abs, Indel.dist and PhoneticEditDistance.dist.  Each calls a
\* dist_abs and takes up again when that call has returned.  A quotient is
\* held as the pair <<dividend, divisor>>.

Zero == <<0, 1>>

\* The value of x / term in Python: a quotient; with term = 0 a Python number
\* raises ZeroDivisionError, a numpy scalar (a matrix cell) gives nan or inf.
Quotient(x, term, is_numpy) ==
    IF term # 0 THEN [kind |-> "value", val |-> <<x, term>>]
    ELSE IF ~is_numpy THEN [kind |-> "raise", val |-> "ZeroDivisionError"]
    ELSE IF x = 0 THEN [kind |-> "value", val |-> "nan"]
    ELSE [kind |-> "value", val |-> "inf"]

\* The methods left to take up the result, and nothing of the alignment.
CallVars == <<distance, src_pos, tar_pos, src_aligned, tar_aligned, normalizer, weights, self_weights, stdout>>

\* Levenshtein.dist lines 198-201: identical sequences return 0; else
\* levenshtein(src, tar, mode, cost) is called.
LevDistEnter ==
    /\ pc = "call" /\ op = "Levenshtein.dist"
    /\ IF src = tar
       THEN /\ ret' = Zero /\ pc' = "done" /\ UNCHANGED <<op, stack, calls>>
       ELSE /\ op' = "Levenshtein"
            /\ stack' = <<"Levenshtein.dist">> \o stack
            /\ calls' = Append(calls, "Levenshtein.dist_abs")
            /\ UNCHANGED <<ret, pc>>
    /\ UNCHANGED <<mode, cost, src, tar, d_mat, exc, ref, normalize_term, CallVars>>

\* Mutant of LevDistReturn: the divisor is the smaller of the two terms.
LevDistReturnMin ==
    /\ pc = "done" /\ stack # <<>> /\ Head(stack) = "Levenshtein.dist"
    /\ LET term == Min2(Len(src) * del_cost(cost), Len(tar) * ins_cost(cost))
           q == Quotient(ret, term, d_mat # NoMatrix)
       IN  /\ normalize_term' = term
           /\ IF q.kind = "raise"
              THEN /\ exc' = q.val /\ pc' = "raised" /\ UNCHANGED ret
              ELSE /\ ret' = q.val /\ UNCHANGED <<pc, exc>>
    /\ op' = "Levenshtein.dist"
    /\ stack' = Tail(stack)
    /\ UNCHANGED <<mode, cost, src, tar, d_mat, ref, calls, CallVars>>

\* Levenshtein.dist lines 201-203: divide by max(len(src) * del_cost,
\* len(tar) * ins_cost).
LevDistReturn ==
    /\ pc = "done" /\ stack # <<>> /\ Head(stack) = "Levenshtein.dist"
    /\ LET term == Max2(Len(src) * del_cost(cost), Len(tar) * ins_cost(cost))
           q == Quotient(ret, term, d_mat # NoMatrix)
       IN  /\ normalize_term' = term
           /\ IF q.kind = "raise"
              THEN /\ exc' = q.val /\ pc' = "raised" /\ UNCHANGED ret
              ELSE /\ ret' = q.val /\ UNCHANGED <<pc, exc>>
    /\ op' = "Levenshtein.dist"
    /\ stack' = Tail(stack)
    /\ UNCHANGED <<mode, cost, src, tar, d_mat, ref, calls, CallVars>>

\* DamerauLevenshtein.dist lines 483-485: identical sequences return 0.0; else
\* self.dist_abs(src, tar, cost) is called.
DLDistEnter ==
    /\ pc = "call" /\ op = "DamerauLevenshtein.dist"
    /\ IF src = tar
       THEN /\ ret' = Zero /\ pc' = "done" /\ UNCHANGED <<op, stack, calls>>
       ELSE /\ op' = "DamerauLevenshtein"
            /\ stack' = <<"DamerauLevenshtein.dist">> \o stack
            /\ calls' = Append(calls, "DamerauLevenshtein.dist_abs")
            /\ UNCHANGED <<ret, pc>>
    /\ UNCHANGED <<mode, cost, src, tar, d_mat, exc, ref, normalize_term, CallVars>>

\* DamerauLevenshtein.dist lines 485-488: the division.
DLDistReturn ==
    /\ pc = "done" /\ stack # <<>> /\ Head(stack) = "DamerauLevenshtein.dist"
    /\ LET term == Max2(Len(src) * del_cost(cost), Len(tar) * ins_cost(cost))
           q == Quotient(ret, term, d_mat # NoMatrix)
       IN  /\ normalize_term' = term
           /\ IF q.kind = "raise"
              THEN /\ exc' = q.val /\ pc' = "raised" /\ UNCHANGED ret
              ELSE /\ ret' = q.val /\ UNCHANGED <<pc, exc>>
    /\ op' = "DamerauLevenshtein.dist"
    /\ stack' = Tail(stack)
    /\ UNCHANGED <<mode, cost, src, tar, d_mat, ref, calls, CallVars>>

\* Mutant of IndelCost: a substitution costs as much as an insert.
IndelCostCheapSub == <<1 * Scale, 1 * Scale, 1 * Scale, 9999 * Scale>>

\* Indel.dist_abs lines 617-619: the cost tuple of the Levenshtein call.
IndelCost == <<1 * Scale, 1 * Scale, 9999 * Scale, 9999 * Scale>>

\* Indel.dist_abs lines 617-619: call self._lev.dist_abs in mode lev.
IndelDistAbsEnter ==
    /\ pc = "call" /\ op = "Indel.dist_abs"
    /\ op' = "Levenshtein"
    /\ mode' = "lev"
    /\ cost' = IndelCost
    /\ stack' = <<"Indel.dist_abs">> \o stack
    /\ calls' = Append(calls, "Levenshtein.dist_abs")
    /\ UNCHANGED <<src, tar, pc, d_mat, ret, exc, ref, normalize_term, CallVars>>

\* Indel.dist_abs line 617: return what the call returned.
IndelDistAbsReturn ==
    /\ pc = "done" /\ stack # <<>> /\ Head(stack) = "Indel.dist_abs"
    /\ op' = "Indel.dist_abs"
    /\ stack' = Tail(stack)
    /\ UNCHANGED <<mode, cost, src, tar, pc, d_mat, ret, exc, ref, calls,
                   normalize_term, CallVars>>

\* Indel.dist lines 646-648: identical sequences return 0.0; else
\* self.dist_abs(src, tar) is called.
IndelDistEnter ==
    /\ pc = "call" /\ op = "Indel.dist"
    /\ IF src = tar
       THEN /\ ret' = Zero /\ pc' = "done" /\ UNCHANGED <<op, stack, calls>>
       ELSE /\ op' = "Indel.dist_abs"
            /\ stack' = <<"Indel.dist">> \o stack
            /\ calls' = Append(calls, "Indel.dist_abs")
            /\ UNCHANGED <<ret, pc>>
    /\ UNCHANGED <<mode, cost, src, tar, d_mat, exc, ref, normalize_term, CallVars>>

\* Indel.dist line 648: divide by len(src) + len(tar).
IndelDistReturn ==
    /\ pc = "done" /\ stack # <<>> /\ Head(stack) = "Indel.dist"
    /\ LET term == (Len(src) + Len(tar)) * Scale
           q == Quotient(ret, term, d_mat # NoMatrix)
       IN  /\ normalize_term' = term
           /\ IF q.kind = "raise"
              THEN /\ exc' = q.val /\ pc' = "raised" /\ UNCHANGED ret
              ELSE /\ ret' = q.val /\ UNCHANGED <<pc, exc>>
    /\ op' = "Indel.dist"
    /\ stack' = Tail(stack)
    /\ UNCHANGED <<mode, cost, src, tar, d_mat, ref, calls, CallVars>>

\* self._normalizer applied to the list [a, b]: max or sum.
Normalize(f, a, b) == IF f = "max" THEN Max2(a, b) ELSE a + b

\* Mutant of PedDistEnter: the normalizer is applied before the sequences are
\* compared.
PedDistEnterLateGuard ==
    /\ pc = "call" /\ op = "PhoneticEditDistance.dist"
    /\ normalize_term' = Normalize(normalizer, Len(src) * del_cost(cost),
                                   Len(tar) * ins_cost(cost))
    /\ IF src = tar
       THEN /\ ret' = Zero /\ pc' = "done"
            /\ UNCHANGED <<op, stack, calls>>
       ELSE /\ op' = "PhoneticEditDistance"
            /\ stack' = <<"PhoneticEditDistance.dist">> \o stack
            /\ calls' = Append(calls, "PhoneticEditDistance.dist_abs")
            /\ UNCHANGED <<ret, pc>>
    /\ UNCHANGED <<mode, cost, src, tar, d_mat, exc, ref, CallVars>>

\* PhoneticEditDistance.dist lines 354-365: identical sequences return 0.0;
\* else the normalizer is applied and self.dist_abs(src, tar) is called.
PedDistEnter ==
    /\ pc = "call" /\ op = "PhoneticEditDistance.dist"
    /\ IF src = tar
       THEN /\ ret' = Zero /\ pc' = "done"
            /\ UNCHANGED <<op, stack, calls, normalize_term>>
       ELSE /\ normalize_term' = Normalize(normalizer, Len(src) * del_cost(cost),
                                           Len(tar) * ins_cost(cost))
            /\ op' = "PhoneticEditDistance"
            /\ stack' = <<"PhoneticEditDistance.dist">> \o stack
            /\ calls' = Append(calls, "PhoneticEditDistance.dist_abs")
            /\ UNCHANGED <<ret, pc>>
    /\ UNCHANGED <<mode, cost, src, tar, d_mat, exc, ref, CallVars>>

\* PhoneticEditDistance.dist line 365: the division.  dist_abs returns a numpy
\* scalar only for a matrix cell that is not whole (lines 311-314).
PedDistReturn ==
    /\ pc = "done" /\ stack # <<>> /\ Head(stack) = "PhoneticEditDistance.dist"
    /\ LET q == Quotient(ret, normalize_term, d_mat # NoMatrix /\ ret % Scale # 0)
       IN  IF q.kind = "raise"
           THEN /\ exc' = q.val /\ pc' = "raised" /\ UNCHANGED ret
           ELSE /\ ret' = q.val /\ UNCHANGED <<pc, exc>>
    /\ op' = "PhoneticEditDistance.dist"
    /\ stack' = Tail(stack)
    /\ UNCHANGED <<mode, cost, src, tar, d_mat, ref, calls, normalize_term, CallVars>>

----------------------------------------------------------------------------
\* PhoneticEditDistance.__init__ (_phonetic_edit_distance.py 102-119).

\* The features are named 1..NumFeatures; _FEATURE_MASK gives each its bit
\* mask, the first feature having the highest.
Features == 1..NumFeatures

FEATURE_MASK == [f \in Features |-> 2 ^ (NumFeatures - f)]

\* sorted(_FEATURE_MASK, key=_FEATURE_MASK.get, reverse=True)
SortedFeatures ==
    CHOOSE q \in [1..NumFeatures -> Features] :
        /\ \A f \in Features : \E k \in 1..NumFeatures : q[k] = f
        /\ \A k \in 1..(NumFeatures - 1) : FEATURE_MASK[q[k]] > FEATURE_MASK[q[k + 1]]

\* [0] * n: the empty list when n <= 0.
Zeros(n) == [k \in 1..n |-> 0]

\* Truth value of a Python object: None and empty containers are false.
Truthy(w) ==
    /\ w.kind # "None"
    /\ w.kind \in {"list", "tuple"} => Len(w.val) > 0
    /\ w.kind = "dict" => DOMAIN w.val # {}

\* Lines 107-119: the value stored in self._weights.
InitWeights(w) ==
    IF Truthy(w)
    THEN IF w.kind = "dict"
         THEN [kind |-> "list",
               val |-> [k \in 1..NumFeatures |->
                          IF SortedFeatures[k] \in DOMAIN w.val
                          THEN w.val[SortedFeatures[k]] ELSE 0]]
         ELSE [kind |-> "list", val |-> w.val \o Zeros(NumFeatures - Len(w.val))]
    ELSE w

\* Lines 102-119: __init__ stores mode, cost, normalizer and the weights.
PedInit ==
    /\ pc = "call" /\ op = "PhoneticEditDistance.__init__"
    /\ self_weights' = InitWeights(weights)
    /\ pc' = "done"
    /\ UNCHANGED <<op, mode, cost, src, tar, d_mat, ret, exc, ref, stack, calls,
                   normalize_term, distance, src_pos, tar_pos, src_aligned,
                   tar_aligned, normalizer, weights, stdout>>

----------------------------------------------------------------------------
\* PhoneticEditDistance.alignment (_phonetic_edit_distance.py 221-258).

\* The gap marker '-'.
Gap == 0

Reverse(s) == [k \in 1..Len(s) |-> s[Len(s) + 1 - k]]

\* Mutant of AlignMove: a tie between up and left goes to left.
AlignMoveLeftOnTie(d, sp, tp) ==
    LET up == d[<<sp, tp - 1>>]
        left == d[<<sp - 1, tp>>]
        diag == d[<<sp - 1, tp - 1>>]
    IN  IF diag <= Min2(up, left) THEN "diag"
        ELSE IF up < left THEN "up"
        ELSE "left"

\* Mutant of AlignMove: the diagonal is taken only when strictly smallest.
AlignMoveStrictDiag(d, sp, tp) ==
    LET up == d[<<sp, tp - 1>>]
        left == d[<<sp - 1, tp>>]
        diag == d[<<sp - 1, tp - 1>>]
    IN  IF diag < Min2(up, left) THEN "diag"
        ELSE IF up <= left THEN "up"
        ELSE "left"

\* Lines 232-248: the branch one pass of the first loop takes.
AlignMove(d, sp, tp) ==
    LET up == d[<<sp, tp - 1>>]
        left == d[<<sp - 1, tp>>]
        diag == d[<<sp - 1, tp - 1>>]
    IN  IF diag <= Min2(up, left) THEN "diag"
        ELSE IF up <= left THEN "up"
        ELSE "left"

\* Lines 221-229: build the matrix, set the positions and the distance.
AlignEnter ==
    /\ pc = "call" /\ op = "PhoneticEditDistance.alignment"
    /\ LET r == PedAlignmentMatrix(src, tar, mode, cost)
       IN  /\ d_mat' = r.d
           /\ IF r.err
              THEN /\ exc' = "IndexError" /\ pc' = "raised"
                   /\ UNCHANGED <<distance, src_pos, tar_pos>>
              ELSE /\ src_pos' = Len(src)
                   /\ tar_pos' = Len(tar)
                   /\ distance' = r.d[<<Len(src), Len(tar)>>]
                   /\ pc' = "backtrace"
                   /\ UNCHANGED exc
    /\ calls' = Append(calls, "PhoneticEditDistance._alignment_matrix")
    /\ UNCHANGED <<op, mode, cost, src, tar, ret, ref, stack, normalize_term,
                   src_aligned, tar_aligned, normalizer, weights, self_weights, stdout>>

\* Lines 231-248: one pass of the first loop, both positions non-zero.
AlignStep ==
    /\ pc = "backtrace" /\ src_pos # 0 /\ tar_pos # 0
    /\ stdout' = Append(stdout, <<d_mat[<<src_pos, tar_pos - 1>>],
                                  d_mat[<<src_pos - 1, tar_pos>>],
                                  d_mat[<<src_pos - 1, tar_pos - 1>>]>>)
    /\ LET move == AlignMove(d_mat, src_pos, tar_pos)
       IN  IF move = "diag"
           THEN /\ src_pos' = src_pos - 1
                /\ tar_pos' = tar_pos - 1
                /\ src_aligned' = Append(src_aligned, At(src, src_pos - 1))
                /\ tar_aligned' = Append(tar_aligned, At(tar, tar_pos - 1))
           ELSE IF move = "up"
           THEN /\ tar_pos' = tar_pos - 1
                /\ src_aligned' = Append(src_aligned, Gap)
                /\ tar_aligned' = Append(tar_aligned, At(tar, tar_pos - 1))
                /\ UNCHANGED src_pos
           ELSE /\ src_pos' = src_pos - 1
                /\ src_aligned' = Append(src_aligned, At(src, src_pos - 1))
                /\ tar_aligned' = Append(tar_aligned, Gap)
                /\ UNCHANGED tar_pos
    /\ UNCHANGED <<op, mode, cost, src, tar, pc, d_mat, ret, exc, ref, stack, calls,
                   normalize_term, distance, normalizer, weights, self_weights>>

\* Mutant of AlignTailTar: tar_pos is not decremented.
AlignTailTarNoDecrement ==
    /\ pc = "backtrace" /\ ~(src_pos # 0 /\ tar_pos # 0) /\ tar_pos # 0
    /\ tar_pos' = tar_pos
    /\ tar_aligned' = Append(tar_aligned, At(tar, tar_pos - 1))
    /\ src_aligned' = Append(src_aligned, Gap)
    /\ UNCHANGED <<op, mode, cost, src, tar, pc, d_mat, ret, exc, ref, stack, calls,
                   normalize_term, distance, src_pos, normalizer, weights, self_weights, stdout>>

\* Lines 249-252: one pass of the second loop.
AlignTailTar ==
    /\ pc = "backtrace" /\ ~(src_pos # 0 /\ tar_pos # 0) /\ tar_pos # 0
    /\ tar_pos' = tar_pos - 1
    /\ tar_aligned' = Append(tar_aligned, At(tar, tar_pos - 1))
    /\ src_aligned' = Append(src_aligned, Gap)
    /\ UNCHANGED <<op, mode, cost, src, tar, pc, d_mat, ret, exc, ref, stack, calls,
                   normalize_term, distance, src_pos, normalizer, weights, self_weights, stdout>>

\* Lines 253-256: one pass of the third loop.
AlignTailSrc ==
    /\ pc = "backtrace" /\ tar_pos = 0 /\ src_pos # 0
    /\ src_pos' = src_pos - 1
    /\ src_aligned' = Append(src_aligned, At(src, src_pos - 1))
    /\ tar_aligned' = Append(tar_aligned, Gap)
    /\ UNCHANGED <<op, mode, cost, src, tar, pc, d_mat, ret, exc, ref, stack, calls,
                   normalize_term, distance, tar_pos, normalizer, weights, self_weights, stdout>>

\* Mutant of AlignReturn: the two lists are returned as built, not reversed.
AlignReturnNoReverse ==
    /\ pc = "backtrace" /\ src_pos = 0 /\ tar_pos = 0
    /\ pc' = "done"
    /\ ret' = <<distance, src_aligned, tar_aligned>>
    /\ UNCHANGED <<op, mode, cost, src, tar, d_mat, exc, ref, outer>>

\* Line 258: return the distance and the two lists, reversed and joined.
AlignReturn ==
    /\ pc = "backtrace" /\ src_pos = 0 /\ tar_pos = 0
    /\ pc' = "done"
    /\ ret' = <<distance, Reverse(src_aligned), Reverse(tar_aligned)>>
    /\ UNCHANGED <<op, mode, cost, src, tar, d_mat, exc, ref, outer>>

----------------------------------------------------------------------------
\* Reference: the cheapest sequence of elementary edits, by exhaustive
\* relaxation over every sequence of at most n symbols out of k.  ref.tab[i][v]
\* is the least total cost found so far of a sequence of single-symbol edits
\* turning the first i symbols of src into v (-1: none found yet).

Prefix(s, i) == SubSeq(s, 1, i)
RemoveAt(v, p) == SubSeq(v, 1, p - 1) \o SubSeq(v, p + 1, Len(v))
InsertAt(v, p, a) == SubSeq(v, 1, p) \o <<a>> \o SubSeq(v, p + 1, Len(v))
SwapAt(v, p) == [v EXCEPT ![p] = v[p + 1], ![p + 1] = v[p]]

\* The pairs <<u, w>>: one edit of cost w turns u into v.
RefPreds(v, c, transp, k, n) ==
    {<<RemoveAt(v, p), ins_cost(c)>> : p \in 1..Len(v)}
      \cup (IF Len(v) < n
            THEN {<<InsertAt(v, pa[1], pa[2]), del_cost(c)>> : pa \in (0..Len(v)) \X Syms(k)}
            ELSE {})
      \cup {<<[v EXCEPT ![pa[1]] = pa[2]], sub_cost(c)>> :
                pa \in {qa \in (1..Len(v)) \X Syms(k) : v[qa[1]] # qa[2]}}
      \cup (IF transp
            THEN {<<SwapAt(v, p), trans_cost(c)>> : p \in 1..(Len(v) - 1)}
            ELSE {})

SetMin(S) == CHOOSE x \in S : \A y \in S : x <= y

RefRelaxRow(row, c, transp, k, n) ==
    [v \in Strs(k, n) |->
        LET cands == (IF row[v] # -1 THEN {row[v]} ELSE {})
                       \cup {row[uw[1]] + uw[2] :
                                uw \in {x \in RefPreds(v, c, transp, k, n) : row[x[1]] # -1}}
        IN  IF cands = {} THEN -1 ELSE SetMin(cands)]

RefRelaxed(r, c, transp) ==
    [r EXCEPT !.tab = [i \in DOMAIN r.tab |-> RefRelaxRow(r.tab[i], c, transp, r.k, r.n)]]

RefStart(s, rows, k, n) ==
    [k |-> k, n |-> n,
     tab |-> [i \in rows |-> [v \in Strs(k, n) |-> IF v = Prefix(s, i) THEN 0 ELSE -1]]]

\* Adjacent transpositions are edits of DamerauLevenshtein only.
RefTransp == op = "DamerauLevenshtein"

\* One more round of relaxation, while it still lowers some entry.
RefRelax ==
    /\ pc = "ref"
    /\ RefRelaxed(ref, cost, RefTransp) # ref
    /\ ref' = RefRelaxed(ref, cost, RefTransp)
    /\ UNCHANGED <<op, mode, cost, src, tar, pc, d_mat, ret, exc, outer>>

\* The table is final: call the method on src and any target, keeping the
\* entries of the target's prefixes.
RefCall ==
    /\ pc = "ref"
    /\ RefRelaxed(ref, cost, RefTransp) = ref
    /\ \E t \in Strs(ref.k, ref.n) :
          /\ tar' = t
          /\ ref' = [ref EXCEPT !.tab =
                        [i \in DOMAIN ref.tab |->
                            [v \in {Prefix(t, j) : j \in 0..Len(t)} |-> ref.tab[i][v]]]]
    /\ pc' = "call"
    /\ UNCHANGED <<op, mode, cost, src, d_mat, ret, exc, outer>>

----------------------------------------------------------------------------
\* Specifications.

\* The calls a specification starts from: every method, every mode it takes.
Calls == {<<"Levenshtein", m>> : m \in Modes}
           \cup {<<"DamerauLevenshtein", "lev">>}
           \cup {<<"PhoneticEditDistance", m>> : m \in Modes}

\* No method is waiting, nothing has been computed or printed.
NotComputed == -1
OuterInit ==
    /\ stack = <<>>
    /\ calls = <<>>
    /\ normalize_term = NotComputed
    /\ distance = 0
    /\ src_pos = 0
    /\ tar_pos = 0
    /\ src_aligned = <<>>
    /\ tar_aligned = <<>>
    /\ normalizer = "max"
    /\ weights = None
    /\ self_weights = None
    /\ stdout = <<>>

InitOver(strs, costs) ==
    /\ \E c \in Calls : op = c[1] /\ mode = c[2]
    /\ cost \in costs
    /\ src \in strs
    /\ tar \in strs
    /\ pc = "call"
    /\ d_mat = NoMatrix
    /\ ret = 0
    /\ exc = "none"
    /\ ref = NoRef
    /\ OuterInit

Next ==
    \/ LevEnter
    \/ LevFill
    \/ LevReturn
    \/ DLEnter
    \/ DLFill
    \/ DLReturn
    \/ PedEnter
    \/ PedFill
    \/ PedReturn

\* Costs 0, 1/Scale and 1.
Init == InitOver(Strs(NumSym, MaxLen), FracCosts)
Spec == Init /\ [][Next]_vars

\* Whole-number costs up to MaxIntCost.
InitInt == InitOver(Strs(NumSymI, MaxLenI), IntCosts)
SpecInt == InitInt /\ [][Next]_vars

\* The whole-number costs 0, 1 and 2 on the short sequences.
WholeCosts == Tuples4({0, Scale, 2 * Scale})
InitWhole == InitOver(Strs(NumSym, MaxLen), WholeCosts)
SpecWhole == InitWhole /\ [][Next]_vars

\* Unit costs, a larger alphabet.
InitUnit == InitOver(Strs(NumSymU, MaxLenU), {UnitCost})
SpecUnit == InitUnit /\ [][Next]_vars

\* Unit costs, the sequences among which a third one is drawn.
InitTri == InitOver(Strs(NumSymT, MaxLenT), {UnitCost})
SpecTri == InitTri /\ [][Next]_vars

\* The normalized distances and Indel, every method and mode.
NormCalls == {<<"Levenshtein.dist", m, "max">> : m \in Modes}
               \cup {<<"DamerauLevenshtein.dist", "lev", "max">>}
               \cup {<<"Indel.dist_abs", "lev", "max">>, <<"Indel.dist", "lev", "max">>}
               \cup {<<"PhoneticEditDistance.dist", m, f>> : m \in Modes, f \in {"max", "sum"}}

AlignCalls == {<<"PhoneticEditDistance.alignment", m, "max">> : m \in Modes}

\* A call out of the set calls_ on two of the sequences strs, under one of costs.
\* Before the call returns ret holds a value of the kind the method returns:
\* a number, or for alignment a triple of a number and two sequences.
InitCalls(calls_, strs, costs) ==
    /\ \E c \in calls_ : op = c[1] /\ mode = c[2] /\ normalizer = c[3]
    /\ cost \in costs
    /\ src \in strs
    /\ tar \in strs
    /\ pc = "call"
    /\ d_mat = NoMatrix
    /\ ret = IF op = "PhoneticEditDistance.alignment" THEN <<0, <<>>, <<>>>> ELSE 0
    /\ exc = "none"
    /\ ref = NoRef
    /\ stack = <<>>
    /\ calls = <<>>
    /\ normalize_term = NotComputed
    /\ distance = 0
    /\ src_pos = 0
    /\ tar_pos = 0
    /\ src_aligned = <<>>
    /\ tar_aligned = <<>>
    /\ weights = None
    /\ self_weights = None
    /\ stdout = <<>>

NextNorm ==
    \/ LevEnter
    \/ LevFill
    \/ LevReturn
    \/ DLEnter
    \/ DLFill
    \/ DLReturn
    \/ PedEnter
    \/ PedFill
    \/ PedReturn
    \/ LevDistEnter
    \/ LevDistReturn
    \/ DLDistEnter
    \/ DLDistReturn
    \/ IndelDistAbsEnter
    \/ IndelDistAbsReturn
    \/ IndelDistEnter
    \/ IndelDistReturn
    \/ PedDistEnter
    \/ PedDistReturn

\* The normalized distances under costs 0, 1/Scale and 1.
InitNorm == InitCalls(NormCalls, Strs(NumSymN, MaxLenN), FracCosts)
SpecNorm == InitNorm /\ [][NextNorm]_vars

\* The normalized distances under whole-number costs up to MaxIntCost.
InitNormInt == InitCalls(NormCalls, Strs(NumSymN, MaxLenN), IntCosts)
SpecNormInt == InitNormInt /\ [][NextNorm]_vars

\* The normalized distances under unit costs.
InitNormUnit == InitCalls(NormCalls, Strs(NumSymI, MaxLenI), {UnitCost})
SpecNormUnit == InitNormUnit /\ [][NextNorm]_vars

NextAlign ==
    \/ AlignEnter
    \/ AlignStep
    \/ AlignTailTar
    \/ AlignTailSrc
    \/ AlignReturn

\* The alignment under costs 0, 1/Scale and 1.
InitAlign == InitCalls(AlignCalls, Strs(NumSymA, MaxLenA), FracCosts)
SpecAlign == InitAlign /\ [][NextAlign]_vars

\* Lines 231-258: the steps of the backtrace.
Backtrace ==
    \/ AlignStep
    \/ AlignTailTar
    \/ AlignTailSrc
    \/ AlignReturn

\* The same calls, each backtrace running to its end: the loops are
\* sequential code, so a backtrace that can take its next step takes it.
\* Every step of the backtrace changes pc or one of the two positions.
SpecAlignFair ==
    InitAlign /\ [][NextAlign]_vars /\ WF_<<pc, src_pos, tar_pos>>(Backtrace)

\* The alignment under unit costs.
InitAlignUnit == InitCalls(AlignCalls, Strs(NumSymU, MaxLenU), {UnitCost})
SpecAlignUnit == InitAlignUnit /\ [][NextAlign]_vars

\* Every method on the examples of the documentation, unit costs.
AllCalls == {<<c[1], c[2], "max">> : c \in Calls} \cup NormCalls \cup AlignCalls
NextAll ==
    \/ LevEnter
    \/ LevFill
    \/ LevReturn
    \/ DLEnter
    \/ DLFill
    \/ DLReturn
    \/ PedEnter
    \/ PedFill
    \/ PedReturn
    \/ LevDistEnter
    \/ LevDistReturn
    \/ DLDistEnter
    \/ DLDistReturn
    \/ IndelDistAbsEnter
    \/ IndelDistAbsReturn
    \/ IndelDistEnter
    \/ IndelDistReturn
    \/ PedDistEnter
    \/ PedDistReturn
    \/ AlignEnter
    \/ AlignStep
    \/ AlignTailTar
    \/ AlignTailSrc
    \/ AlignReturn
InitEx == InitCalls(AllCalls, Examples, {UnitCost})
SpecEx == InitEx /\ [][NextAll]_vars

\* Levenshtein in mode osa under unit costs, on sequences of the letters A, B
\* and C: a short source, its target, and the short sequences a detour may
\* pass through.
OsaStrs(n) == UNION {[1..l -> {ABC[k] : k \in DOMAIN ABC}] : l \in 0..n}
NextLev ==
    \/ LevEnter
    \/ LevFill
    \/ LevReturn
InitOsa ==
    /\ InitOver(OsaStrs(MaxLenO), {UnitCost})
    /\ op = "Levenshtein" /\ mode = "osa"
    /\ src \in OsaStrs(MaxLenB)
SpecOsa == InitOsa /\ [][NextLev]_vars

\* The reference table first, then one call of the method on src and a target.
InitRefOver(call, k, n, costs) ==
    /\ op = call[1] /\ mode = call[2]
    /\ cost \in costs
    /\ src \in Strs(k, n)
    /\ tar = src
    /\ pc = "ref"
    /\ d_mat = NoMatrix
    /\ ret = 0
    /\ exc = "none"
    /\ ref = RefStart(src, call[3], k, n)
    /\ OuterInit

\* Levenshtein in mode lev against the reference, whole-number costs; the
\* transposition cost plays no part.  One row of the table per prefix of src.
LevRefCosts == {c \in IntCosts : trans_cost(c) = Scale}
InitRefLev ==
    \E s \in Strs(NumSymR, MaxLenR) :
        /\ src = s
        /\ InitRefOver(<<"Levenshtein", "lev", 0..Len(s)>>, NumSymR, MaxLenR, LevRefCosts)
NextRefLev ==
    \/ RefRelax
    \/ RefCall
    \/ LevEnter
    \/ LevFill
    \/ LevReturn
SpecRefLev == InitRefLev /\ [][NextRefLev]_vars

\* DamerauLevenshtein against the reference, unit costs.
InitRefDL ==
    \E s \in Strs(NumSymD, MaxLenD) :
        /\ src = s
        /\ InitRefOver(<<"DamerauLevenshtein", "lev", {Len(s)}>>, NumSymD, MaxLenD, {UnitCost})
NextRefDL ==
    \/ RefRelax
    \/ RefCall
    \/ DLEnter
    \/ DLFill
    \/ DLReturn
SpecRefDL == InitRefDL /\ [][NextRefDL]_vars

\* The values given as weights: None, lists and tuples of up to
\* NumFeatures + 1 numbers, dicts from some of the features to numbers.
WeightLists == UNION {[1..n -> 0..MaxWeight] : n \in 0..(NumFeatures + 1)}

WeightDicts == UNION {[D -> 0..MaxWeight] : D \in SUBSET Features}

WeightArgs ==
    {None}
      \cup {[kind |-> k, val |-> v] : k \in {"list", "tuple"}, v \in WeightLists}
      \cup {[kind |-> "dict", val |-> v] : v \in WeightDicts}

\* Construction of a PhoneticEditDistance.
InitCtor ==
    /\ op = "PhoneticEditDistance.__init__"
    /\ mode \in Modes
    /\ normalizer \in {"max", "sum"}
    /\ cost = UnitCost
    /\ src = <<>> /\ tar = <<>>
    /\ pc = "call"
    /\ d_mat = NoMatrix /\ ret = 0 /\ exc = "none" /\ ref = NoRef
    /\ stack = <<>> /\ calls = <<>> /\ normalize_term = NotComputed
    /\ distance = 0 /\ src_pos = 0 /\ tar_pos = 0
    /\ src_aligned = <<>> /\ tar_aligned = <<>>
    /\ weights \in WeightArgs
    /\ self_weights = None
    /\ stdout = <<>>

NextCtor == PedInit

SpecCtor == InitCtor /\ [][NextCtor]_vars

----------------------------------------------------------------------------
\* Claims.


ValidMode == mode \in {"lev", "osa"}
Empty == <<>>

C3_Symmetry ==
    (pc = "done" /\ ins_cost(cost) = del_cost(cost)) =>
        /\ (op = "Levenshtein" /\ ValidMode) => ret = LevDistAbs(tar, src, mode, cost)
        /\ (op = "DamerauLevenshtein" /\ ~DLUnsupported(cost)) =>
              DLDistAbs(tar, src, cost) = [kind |-> "value", val |-> ret]

C3_Witness ==
    /\ pc = "done" /\ ins_cost(cost) = del_cost(cost) /\ ins_cost(cost) > 0
    /\ op = "Levenshtein" /\ mode = "osa"
    /\ Len(src) = 2 /\ Len(tar) = 1 /\ ret > 0

\* C4: DamerauLevenshtein with 2 * transpose < insert + delete fails with
\* ValueError for every pair of sequences (identical or empty ones included):
\* no distance is returned under such a cost tuple.
C4_UnsupportedCostNeverReturns ==
    (op = "DamerauLevenshtein" /\ DLUnsupported(cost)) => pc # "done"

\* C5: with a mode that is neither lev nor osa, Levenshtein.dist_abs and the
\* PhoneticEditDistance matrix builder fail before any matrix cell is
\* computed, and no distance is returned.
C5_UnknownModeFails ==
    (op \in {"Levenshtein", "PhoneticEditDistance"} /\ ~ValidMode) =>
        /\ d_mat = NoMatrix
        /\ pc # "done"

\* C6: for a valid cost tuple and mode no operation raises, whatever the two
\* sequences are (src longer than tar and empty sequences included).
C6_Total ==
    (ValidMode /\ ~(op = "DamerauLevenshtein" /\ DLUnsupported(cost))) => pc # "raised"

\* C7: in Levenshtein mode lev with whole non-negative costs, every cell
\* (i, j) of the filled matrix is the least total cost of a sequence of
\* single-symbol inserts, deletes and substitutions turning the first i
\* symbols of src into the first j symbols of tar, and the value returned is
\* that minimum for the whole sequences (cat/hat = 1, Niall/Neil = 3).
C7_LevIsMinimal ==
    /\ pc = "filled" =>
          \A i \in 0..Len(src), j \in 0..Len(tar) :
              d_mat[<<i, j>>] = ref.tab[i][Prefix(tar, j)]
    /\ pc = "done" => ret = ref.tab[Len(src)][tar]
    /\ pc = "ref" =>
          /\ LevDistAbs(cat, hat, "lev", UnitCost) = 1 * Scale
          /\ LevDistAbs(Niall, Neil, "lev", UnitCost) = 3 * Scale

C7_Witness ==
    /\ pc = "filled" /\ Len(src) = 2 /\ Len(tar) = 2
    /\ sub_cost(cost) > ins_cost(cost) + del_cost(cost)
    /\ d_mat[<<2, 2>>] = ins_cost(cost) + del_cost(cost)
    /\ d_mat[<<2, 2>>] > 0

\* C8: under unit costs DamerauLevenshtein.dist_abs is the length of the
\* shortest sequence of single-symbol inserts, deletes, substitutions and
\* adjacent transpositions turning src into tar (cat/hat = 1, ATCG/TAGC = 2,
\* CA/ABC = 2).
C8_DLUnitIsMinimal ==
    /\ pc = "done" => ret = ref.tab[Len(src)][tar]
    /\ pc = "ref" =>
          /\ DLDistAbs(cat, hat, UnitCost).val = 1 * Scale
          /\ DLDistAbs(ATCG, TAGC, UnitCost).val = 2 * Scale
          /\ DLDistAbs(CA, ABC, UnitCost).val = 2 * Scale

C8_Witness ==
    pc = "done" /\ src = CA /\ tar = ABC /\ ret = 2 * Scale

\* C9: for whole non-negative costs with 2 * transpose >= insert + delete,
\* DamerauLevenshtein.dist_abs is the least total cost of a sequence of
\* elementary edits; it is never below that minimum, so never below
\* (len(tar) - len(src)) * insert when tar is the longer.
C9_DLNeverBelowInserts ==
    (pc = "done" /\ op = "DamerauLevenshtein" /\ ~DLUnsupported(cost)
       /\ Len(tar) > Len(src)) =>
        ret >= (Len(tar) - Len(src)) * ins_cost(cost)

C11_OsaNotMetric ==
    /\ pc = "call" =>
          /\ LevDistAbs(CA, ABC, "osa", UnitCost)
               > LevDistAbs(CA, AC, "osa", UnitCost) + LevDistAbs(AC, ABC, "osa", UnitCost)
          /\ LevDistAbs(CA, ABC, "osa", UnitCost) > DLDistAbs(CA, ABC, UnitCost).val
    /\ (/\ pc = "done" /\ op = "Levenshtein" /\ mode = "osa"
        /\ \E b \in OsaStrs(MaxLenB) :
              ret > LevDistAbs(src, b, "osa", cost) + LevDistAbs(b, tar, "osa", cost))
         => ret > DLDistAbs(src, tar, cost).val

C11_Witness ==
    /\ pc = "done" /\ op = "Levenshtein" /\ mode = "osa"
    /\ src = CA /\ tar = ABC /\ ret = 3 * Scale
    /\ ret > LevDistAbs(src, AC, "osa", cost) + LevDistAbs(AC, tar, "osa", cost)
    /\ DLDistAbs(src, tar, cost).val = 2 * Scale

\* A method called from outside has returned.
Returned == pc = "done" /\ stack = <<>>

\* C12: under unit costs the normalized distance is in [0, 1] for all
\* sequences: for s # t the raw distance is between 0 and max(len(s), len(t))
\* and is divided by max(len(s), len(t)), in Levenshtein mode lev, in
\* Levenshtein mode osa and in DamerauLevenshtein.
C12_NormalizedUnitRange ==
    /\ (/\ pc = "done" /\ stack # <<>> /\ ValidMode
        /\ Head(stack) \in {"Levenshtein.dist", "DamerauLevenshtein.dist"}) =>
          /\ src # tar
          /\ 0 <= ret
          /\ ret <= Max2(Len(src), Len(tar)) * Scale
    /\ (/\ Returned /\ ValidMode
        /\ op \in {"Levenshtein.dist", "DamerauLevenshtein.dist"}) =>
          IF src = tar THEN ret = Zero
          ELSE /\ ret[2] = Max2(Len(src), Len(tar)) * Scale
               /\ 0 <= ret[1]
               /\ ret[1] <= ret[2]

C12_Witness ==
    /\ Returned /\ op = "Levenshtein.dist" /\ mode = "osa"
    /\ Len(src) = 2 /\ Len(tar) = 3
    /\ ret = <<3 * Scale, 3 * Scale>>

PositiveCosts == \A k \in 1..4 : cost[k] > 0

\* C13: for every cost tuple with positive costs the normalized distance,
\* dist_abs / max(len(src) * delete, len(tar) * insert), lies in [0, 1]:
\* dist_abs(src, tar) <= max(len(src) * delete, len(tar) * insert).
C13_NormalizedRange ==
    (/\ Returned /\ ValidMode /\ PositiveCosts /\ normalizer = "max" /\ src # tar
     /\ op \in {"Levenshtein.dist", "PhoneticEditDistance.dist"}) =>
        /\ ret[2] = Max2(Len(src) * del_cost(cost), Len(tar) * ins_cost(cost))
        /\ 0 <= ret[1]
        /\ ret[1] <= ret[2]

\* The cost of the columns k.. of an aligned pair: a gap on the source side
\* is an insert, a gap on the target side a delete, two different symbols a
\* substitution.
RECURSIVE ColumnSum(_, _, _, _)
ColumnSum(a, b, c, k) ==
    IF k > Len(a) THEN 0
    ELSE (IF a[k] = Gap THEN ins_cost(c)
          ELSE IF b[k] = Gap THEN del_cost(c)
          ELSE IF a[k] # b[k] THEN sub_cost(c)
          ELSE 0) + ColumnSum(a, b, c, k + 1)

\* C14: the alignment returned in mode lev is an optimal edit path: the costs
\* of its columns add up to the distance returned with it, for every pair of
\* sequences and every cost tuple.
C14_AlignmentCostIsDistance ==
    (Returned /\ op = "PhoneticEditDistance.alignment" /\ mode = "lev") =>
        /\ Len(ret[2]) = Len(ret[3])
        /\ ColumnSum(ret[2], ret[3], cost, 1) = ret[1]

\* C15: with unit costs and the equal / not equal substitution cost, in mode
\* lev, the alignment of ATCG with TAGC is the distance 3 with the pair
\* ATCG-, -TAGC: two sequences of length 5, one gap each.
C15_AlignATCG ==
    (/\ op = "PhoneticEditDistance.alignment" /\ mode = "lev"
     /\ src = ATCG /\ tar = TAGC) =>
        /\ pc # "raised"
        /\ pc = "done" => ret = <<3 * Scale, ATCG \o <<Gap>>, <<Gap>> \o TAGC>>

C15_Witness ==
    /\ pc = "done" /\ op = "PhoneticEditDistance.alignment" /\ mode = "lev"
    /\ src = ATCG /\ tar = TAGC
    /\ Len(ret[2]) = 5 /\ Len(ret[3]) = 5 /\ ret[1] = 3 * Scale

\* The length of a longest common subsequence of s and t.
RECURSIVE LCS(_, _)
LCS(s, t) ==
    IF Len(s) = 0 \/ Len(t) = 0 THEN 0
    ELSE IF s[Len(s)] = t[Len(t)]
    THEN 1 + LCS(Prefix(s, Len(s) - 1), Prefix(t, Len(t) - 1))
    ELSE Max2(LCS(Prefix(s, Len(s) - 1), t), LCS(s, Prefix(t, Len(t) - 1)))

\* C16: Indel.dist_abs(src, tar) is the edit distance with inserts and deletes
\* only: len(src) + len(tar) - 2 * LCS(src, tar), the least number of
\* single-symbol insertions and deletions turning src into tar (cat/hat = 2,
\* Colin/Cuilen = 5); it never exceeds len(src) + len(tar).
C16_IndelIsInsertDelete ==
    /\ (pc = "done" /\ op = "Indel.dist_abs") =>
          /\ ret = (Len(src) + Len(tar) - 2 * LCS(src, tar)) * Scale
          /\ ret <= (Len(src) + Len(tar)) * Scale
    /\ (pc = "call" /\ op = "Indel.dist_abs") =>
          /\ LevDistAbs(cat, hat, "lev", IndelCost) = 2 * Scale
          /\ LevDistAbs(Colin, Cuilen, "lev", IndelCost) = 5 * Scale

C16_Witness ==
    /\ Returned /\ op = "Indel.dist_abs"
    /\ Len(src) = 3 /\ Len(tar) = 3 /\ LCS(src, tar) = 2
    /\ src[1] # tar[1]
    /\ ret = 2 * Scale

\* C17: under unit costs Levenshtein.dist_abs gives ATCG -> TAGC the value 3
\* in mode lev and 2 in mode osa, and ACTG -> TAGC the value 4 in mode osa.
C17_LevExamples ==
    (pc = "done" /\ op = "Levenshtein" /\ cost = UnitCost /\ tar = TAGC) =>
        /\ (src = ATCG /\ mode = "lev") => ret = 3 * Scale
        /\ (src = ATCG /\ mode = "osa") => ret = 2 * Scale
        /\ (src = ACTG /\ mode = "osa") => ret = 4 * Scale

C17_Witness ==
    /\ Returned /\ op = "Levenshtein" /\ cost = UnitCost /\ mode = "osa"
    /\ src = ACTG /\ tar = TAGC /\ ret = 4 * Scale

DistOps == {"Levenshtein.dist", "DamerauLevenshtein.dist", "Indel.dist",
            "PhoneticEditDistance.dist"}

\* C18: when src and tar are identical (both empty included) every
\* normalized distance returns exactly 0 without computing the normalizing
\* term: no reduction (max or the normalizer given), no division, and no call
\* of dist_abs.
C18_IdenticalSkipsNormalizer ==
    /\ (stack # <<>> /\ stack[Len(stack)] \in DistOps) => src # tar
    /\ (op \in DistOps /\ src = tar) =>
          /\ pc \in {"call", "done"}
          /\ normalize_term = NotComputed
          /\ calls = <<>>
          /\ d_mat = NoMatrix
          /\ pc = "done" => ret = Zero

C18_Witness ==
    /\ Returned /\ op = "PhoneticEditDistance.dist" /\ normalizer = "sum"
    /\ src = Empty /\ tar = Empty
    /\ ins_cost(cost) = 0 /\ del_cost(cost) = 0
    /\ ret = Zero

\* C19: in the phonetic matrix builder the substitution candidate of every
\* interior cell (i, j) is cell(i-1, j-1) plus the substitution cost of the
\* pair (src[i-1], tar[j-1]): the symbol of tar is the one at the column
\* index, so the candidate depends only on the two symbols the cell compares.
C19_SubCandidateUsesColumn ==
    (pc = "filled" /\ op = "PhoneticEditDistance") =>
        \A i \in 0..(Len(src) - 1), j \in 0..(Len(tar) - 1) :
            PedSubCandidate(d_mat, src, tar, cost, i, j)
              = d_mat[<<i, j>>]
                  + (IF At(src, i) # At(tar, j)
                     THEN sub_cost(cost) * (1 - cmp_features(At(src, i), At(tar, j)))
                     ELSE 0)

\* C20: every step of the backtrace taken while both positions are non-zero
\* follows the fixed order on diag = cell(src_pos-1, tar_pos-1),
\* upper = cell(src_pos, tar_pos-1), left = cell(src_pos-1, tar_pos): if
\* diag <= min(upper, left) both positions decrease and one symbol of each
\* sequence is emitted; else if upper <= left only tar_pos decreases and a gap
\* is emitted on the source side; otherwise only src_pos decreases and a gap
\* is emitted on the target side.  Exactly one move is taken per step.
C20_BacktraceOrder ==
    [][(pc = "backtrace" /\ src_pos # 0 /\ tar_pos # 0) =>
         LET diag == d_mat[<<src_pos - 1, tar_pos - 1>>]
             upper == d_mat[<<src_pos, tar_pos - 1>>]
             left == d_mat[<<src_pos - 1, tar_pos>>]
         IN  IF diag <= upper /\ diag <= left
             THEN /\ src_pos' = src_pos - 1 /\ tar_pos' = tar_pos - 1
                  /\ src_aligned' = Append(src_aligned, src[src_pos])
                  /\ tar_aligned' = Append(tar_aligned, tar[tar_pos])
             ELSE IF upper <= left
             THEN /\ src_pos' = src_pos /\ tar_pos' = tar_pos - 1
                  /\ src_aligned' = Append(src_aligned, Gap)
                  /\ tar_aligned' = Append(tar_aligned, tar[tar_pos])
             ELSE /\ src_pos' = src_pos - 1 /\ tar_pos' = tar_pos
                  /\ src_aligned' = Append(src_aligned, src[src_pos])
                  /\ tar_aligned' = Append(tar_aligned, Gap)]_vars

\* A first step that went up on a tie between upper and left, with the
\* diagonal larger than both.
C20_Witness ==
    /\ pc = "backtrace" /\ op = "PhoneticEditDistance.alignment"
    /\ src_aligned = <<Gap>> /\ Len(tar_aligned) = 1
    /\ src_pos = Len(src) /\ src_pos # 0 /\ tar_pos = Len(tar) - 1
    /\ d_mat[<<src_pos, tar_pos>>] = d_mat[<<src_pos - 1, tar_pos + 1>>]
    /\ d_mat[<<src_pos - 1, tar_pos>>] > d_mat[<<src_pos, tar_pos>>]

\* The three-candidate minimum of cell (i, j) of a filled matrix d, the
\* substitution candidate being sub_cand.
SimpleMin(d, c, i, j, sub_cand) ==
    Min3(d[<<i, j - 1>>] + ins_cost(c), d[<<i - 1, j>>] + del_cost(c), sub_cand)

\* The condition under which mode osa admits the transposition at cell (i, j).
OsaCondition(s, t, i, j) ==
    i > 1 /\ j > 1 /\ s[i] = t[j - 1] /\ s[i - 1] = t[j]

\* The distance PhoneticEditDistance.dist_abs gives in mode m, where it returns.
PedDistAbsValue(s, t, m, c) ==
    IF s = t THEN 0
    ELSE IF Len(s) = 0 THEN ins_cost(c) * Len(t)
    ELSE IF Len(t) = 0 THEN del_cost(c) * Len(s)
    ELSE PedAlignmentMatrix(s, t, m, c).d[<<Len(s), Len(t)>>]

C22_ValidationBeforeMatrix ==
    /\ [](op = "DamerauLevenshtein" =>
            /\ pc = "raised" => (exc = "ValueError" /\ d_mat = NoMatrix)
            /\ pc = "done" => exc = "none")
    /\ [][(op = "DamerauLevenshtein" /\ pc' = "raised") =>
            (pc = "call" /\ d_mat = NoMatrix /\ d_mat' = NoMatrix)]_vars

C22_Witness ==
    /\ op = "DamerauLevenshtein" /\ pc = "raised" /\ exc = "ValueError"
    /\ Len(src) = MaxLen /\ Len(tar) = MaxLen /\ src # tar
    /\ d_mat = NoMatrix

\* C23: with costs that are multiples of 1/2, Levenshtein.dist_abs and
\* DamerauLevenshtein.dist_abs return the weighted distance unrounded: for
\* different non-empty src and tar and strictly positive costs the result is
\* strictly positive, and for one symbol against another it is the cheaper of
\* a substitution and a deletion with an insertion, the sums the fast paths
\* (which do not round) are made of.
C23_NoTruncation ==
    (/\ pc = "done" /\ op \in {"Levenshtein", "DamerauLevenshtein"} /\ ValidMode
     /\ PositiveCosts /\ src # tar /\ Len(src) > 0 /\ Len(tar) > 0) =>
        /\ ret > 0
        /\ (Len(src) = 1 /\ Len(tar) = 1 /\ op = "Levenshtein") =>
              ret = Min2(sub_cost(cost), ins_cost(cost) + del_cost(cost))

\* C24: every operation is pure: no step of a call changes the inputs or the
\* instance (mode, cost and normalizer of a PhoneticEditDistance), and no step
\* writes to stdout; PhoneticEditDistance.alignment in particular writes
\* nothing during its backtrace.
C24_Pure ==
    [][/\ src' = src /\ tar' = tar
       /\ normalizer' = normalizer
       /\ (op = "PhoneticEditDistance.alignment" => (mode' = mode /\ cost' = cost))
       /\ stdout' = stdout]_vars

\* C25: after PhoneticEditDistance is constructed with weights given as a
\* list, tuple or dict (an empty one included, and a list shorter than the
\* number N of features), the stored weights are a list of exactly N entries
\* ordered by feature, each supplied weight at its feature's position and 0
\* for every feature without one; weights = None stays None.
C25_StoredWeights ==
    (op = "PhoneticEditDistance.__init__" /\ pc = "done") =>
        IF weights.kind = "None" THEN self_weights = None
        ELSE IF weights.kind = "dict"
        THEN /\ self_weights.kind = "list"
             /\ Len(self_weights.val) = NumFeatures
             /\ \A f \in Features :
                    self_weights.val[f] =
                        IF f \in DOMAIN weights.val THEN weights.val[f] ELSE 0
        ELSE Len(weights.val) <= NumFeatures =>
             /\ self_weights.kind = "list"
             /\ Len(self_weights.val) = NumFeatures
             /\ \A f \in Features :
                    self_weights.val[f] =
                        IF f <= Len(weights.val) THEN weights.val[f] ELSE 0

\* A call that takes a fast path: identical sequences, or one of them empty.
FastPath == src = tar \/ Len(src) = 0 \/ Len(tar) = 0

\* C26: the fast paths agree with the general recurrence: for Levenshtein
\* (lev, osa) and the phonetic matrix builder with non-negative costs,
\* whenever src = tar or one sequence is empty, the terminal cell of the
\* matrix the general recurrence fills equals the value the fast path returns.
C26_FastPathAgrees ==
    /\ (pc = "done" /\ op = "Levenshtein" /\ ValidMode /\ FastPath) =>
          LevLoop(LevSeed(src, tar, cost), src, tar, mode, cost, 0)[<<Len(src), Len(tar)>>]
            = ret
    /\ (pc = "done" /\ op = "PhoneticEditDistance" /\ ValidMode /\ FastPath) =>
          LET r == PedAlignmentMatrix(src, tar, mode, cost)
          IN  ~r.err /\ r.d[<<Len(src), Len(tar)>>] = ret

\* The sequence q without its gap markers.
StripGaps(q) == SelectSeq(q, LAMBDA x : x # Gap)

\* C27: for src and tar free of the gap marker, the two aligned sequences
\* alignment returns have the same length L, with
\* max(len(src), len(tar)) <= L <= len(src) + len(tar); deleting the gap
\* markers from them gives back src and tar; no column has a gap on both sides.
C27_AlignmentShape ==
    (pc = "done" /\ op = "PhoneticEditDistance.alignment") =>
        LET a == ret[2]
            b == ret[3]
        IN  /\ Len(a) = Len(b)
            /\ Max2(Len(src), Len(tar)) <= Len(a)
            /\ Len(a) <= Len(src) + Len(tar)
            /\ StripGaps(a) = src
            /\ StripGaps(b) = tar
            /\ \A k \in 1..Len(a) : ~(a[k] = Gap /\ b[k] = Gap)

C27_Witness ==
    /\ pc = "done" /\ op = "PhoneticEditDistance.alignment"
    /\ Len(src) = 2 /\ Len(tar) = 2 /\ src[1] # src[2]
    /\ Len(ret[2]) = 3
    /\ \E k \in 1..3 : ret[2][k] = Gap
    /\ \E k \in 1..3 : ret[3][k] = Gap

\* |len(src) - len(tar)| at unit cost.
LenDiff == Scale * (Max2(Len(src), Len(tar)) - Min2(Len(src), Len(tar)))

\* C28: under unit costs, DamerauLevenshtein.dist_abs <= Levenshtein osa <=
\* Levenshtein lev on the same pair, and all three are at least
\* |len(src) - len(tar)|.
C28_ModeOrdering ==
    (pc = "done" /\ cost = UnitCost) =>
        /\ (op = "Levenshtein" /\ mode = "osa") =>
              /\ DLDistAbs(src, tar, cost).val <= ret
              /\ ret <= LevDistAbs(src, tar, "lev", cost)
        /\ (op = "Levenshtein" /\ ValidMode) => ret >= LenDiff
        /\ op = "DamerauLevenshtein" => ret >= LenDiff

C28_Witness ==
    /\ pc = "done" /\ cost = UnitCost /\ op = "Levenshtein" /\ mode = "osa"
    /\ src = CA /\ tar = ABC
    /\ DLDistAbs(src, tar, cost).val < ret
    /\ ret = LevDistAbs(src, tar, "lev", cost)
    /\ ret > LenDiff

\* C29: the backtrace always terminates: every pass of its loops strictly
\* decreases src_pos + tar_pos, neither position becomes negative, at most
\* len(src) + len(tar) columns are produced, and alignment eventually reaches
\* src_pos = 0 and tar_pos = 0 and returns.
C29_BacktraceTerminates ==
    /\ [][pc = "backtrace" =>
            /\ (pc' = "backtrace" => src_pos' + tar_pos' < src_pos + tar_pos)
            /\ (pc' = "done" => (src_pos = 0 /\ tar_pos = 0))
            /\ src_pos' >= 0 /\ tar_pos' >= 0
            /\ Len(src_aligned') <= Len(src) + Len(tar)]_<<pc, src_pos, tar_pos, src_aligned>>
    /\ (pc = "backtrace") ~> (pc = "done" /\ src_pos = 0 /\ tar_pos = 0)

C29_Witness ==
    /\ pc = "done" /\ op = "PhoneticEditDistance.alignment"
    /\ Len(src) = MaxLenA /\ Len(tar) = MaxLenA
    /\ Len(src_aligned) = MaxLenA + 1 /\ Len(tar_aligned) = MaxLenA + 1
    /\ src_pos = 0 /\ tar_pos = 0

\* C30: for every non-negative cost tuple, a zero insert or delete cost
\* included, and every pair src # tar, the normalized distance returns a
\* value: the divisor is not zero and no division by zero fails the call.
C30_NoZeroDivisor ==
    /\ exc # "ZeroDivisionError"
    /\ (/\ op \in {"Levenshtein.dist", "DamerauLevenshtein.dist", "PhoneticEditDistance.dist"}
        /\ src # tar /\ normalize_term # NotComputed) => normalize_term # 0

====
